---- MODULE Spec2Model ----
(***************************************************************************)
(* A model of mdconfig-rs (src/src/lib.rs): the Builder that accumulates   *)
(* an md_ioctl record and attaches an md(4) device, and the Md handle that *)
(* resizes and detaches it (try_destroy, Drop).                            *)
(*                                                                         *)
(* Representation:                                                         *)
(*  - Option<T> is a set: {} is None, {x} is Some(x).  A pointer field of  *)
(*    md_ioctl (md_file, md_label) is {} when null and {buf} when it       *)
(*    points to the byte buffer buf.                                       *)
(*  - md_options is the set of the option bits that are set; x |= B is     *)
(*    union with {B}, x &= !B is difference with {B}.                      *)
(*  - a byte string is a sequence of byte values; 0 is the NUL byte.       *)
(*  - an io::Result is [err |-> {}] (Ok) or [err |-> {e}] (Err(e)), where  *)
(*    e names the call that failed (site) and the OS error code (errno).   *)
(*  - off_t / i64 / u64 are modelled with a scaled width of OffBits bits.  *)
(***************************************************************************)
EXTENDS Integers, Sequences, FiniteSets, TLC

\* ------------------------------------------------------------------ bounds

\* Handle identities 1..MaxHandles: at most this many successful creates.
MaxHandles == 1
\* Most opens of one device node by holders outside the library.
MaxOpen == 1
\* Most modifier calls applied to one Builder.
MaxMods == 2
\* Scaled width of off_t (i64) and u64, in bits.
OffBits == 4

\* libc::PATH_MAX, the capacity in bytes of the md_file and md_label buffers
\* and the longest path (with its terminator) a system call takes: 1024 on
\* FreeBSD, scaled down here.
PATH_MAX == 6

Handles == 1..MaxHandles
\* Kernel unit numbers: one more than there can be handles.
Units == 0..MaxHandles

RECURSIVE Pow2(_)
Pow2(n) == IF n = 0 THEN 1 ELSE 2 * Pow2(n - 1)

\* A mutant of as_i64: a value too large for the signed type is clamped to
\* the largest signed value.
as_i64_saturating(size) ==
    IF size >= Pow2(OffBits - 1) THEN Pow2(OffBits - 1) - 1 ELSE size

\* `size as i64` / `md.size() as libc::off_t`: reinterpretation of an unsigned
\* value as a signed one of the same width.
as_i64(size) ==
    IF size >= Pow2(OffBits - 1) THEN size - Pow2(OffBits) ELSE size

\* ------------------------------------------------------------ byte strings

\* A string of n bytes, none of them NUL.
Bytes(n) == [i \in 1..n |-> 97 + (i % 3)]

\* Vec::extend_from_slice(bytes) followed by Vec::resize(PATH_MAX, 0) on an
\* empty Vec: pads with NUL bytes up to PATH_MAX, and truncates a longer
\* string to PATH_MAX bytes.
PadBuf(bytes) ==
    [i \in 1..PATH_MAX |-> IF i <= Len(bytes) THEN bytes[i] ELSE 0]

\* The C string a buffer holds: the bytes before the first NUL.
RECURSIVE NulAt(_, _)
NulAt(buf, i) ==
    IF i > Len(buf) THEN 0
    ELSE IF buf[i] = 0 THEN i
    ELSE NulAt(buf, i + 1)

CStr(buf) == SubSeq(buf, 1, NulAt(buf, 1) - 1)

\* format!("{}", n) for a natural number.
Digit(d) ==
    CASE d = 0 -> "0" [] d = 1 -> "1" [] d = 2 -> "2" [] d = 3 -> "3"
      [] d = 4 -> "4" [] d = 5 -> "5" [] d = 6 -> "6" [] d = 7 -> "7"
      [] d = 8 -> "8" [] d = 9 -> "9"

RECURSIVE Decimal(_)
Decimal(n) == IF n < 10 THEN Digit(n) ELSE Decimal(n \div 10) \o Digit(n % 10)

\* ------------------------------------------------------------------ Builder

\* Builder::new
new ==
    [filename |-> {},
     label    |-> {},
     mdio     |-> [md_version    |-> "MDIOVERSION",
                   md_unit       |-> 0,
                   md_type       |-> "0",
                   md_file       |-> {},
                   md_mediasize  |-> 0,
                   md_sectorsize |-> 0,
                   md_options    |-> {"MD_AUTOUNIT", "MD_COMPRESS"},
                   md_base       |-> 0,
                   md_fwheads    |-> 0,
                   md_fwsectors  |-> 0,
                   md_label      |-> {},
                   md_pad        |-> 0]]

\* Builder::malloc
malloc(size) ==
    [new EXCEPT !.mdio.md_type = "MD_MALLOC",
                !.mdio.md_mediasize = as_i64(size)]

\* Builder::null
null(size) ==
    [new EXCEPT !.mdio.md_type = "MD_NULL",
                !.mdio.md_mediasize = as_i64(size)]

\* Builder::vnode
vnode(path) ==
    [new EXCEPT !.mdio.md_type = "MD_VNODE",
                !.mdio.md_options = @ \cup {"MD_CLUSTER"},
                !.filename = {path}]

\* A mutant of swap: the cluster option is not set.
swap_no_cluster(size) ==
    [new EXCEPT !.mdio.md_type = "MD_SWAP",
                !.mdio.md_mediasize = as_i64(size)]

\* Builder::swap
swap(size) ==
    [new EXCEPT !.mdio.md_type = "MD_SWAP",
                !.mdio.md_mediasize = as_i64(size),
                !.mdio.md_options = @ \cup {"MD_CLUSTER"}]

\* A mutant of SetFlag: turning an option off turns every option off.
SetFlag_clears_all(b, flag, on) ==
    [b EXCEPT !.mdio.md_options = IF on THEN @ \cup {flag} ELSE {}]

\* The body shared by the boolean modifiers: set the bit or clear it.
SetFlag(b, flag, on) ==
    [b EXCEPT !.mdio.md_options = IF on THEN @ \cup {flag} ELSE @ \ {flag}]

\* Builder::async_
async_(b, on) == SetFlag(b, "MD_ASYNC", on)
\* Builder::cache
cache(b, on) == SetFlag(b, "MD_CACHE", on)
\* Builder::compress
compress(b, on) == SetFlag(b, "MD_COMPRESS", on)
\* Builder::mustdealloc
mustdealloc(b, on) == SetFlag(b, "MD_MUSTDEALLOC", on)
\* Builder::reserve
reserve(b, on) == SetFlag(b, "MD_RESERVE", on)
\* Builder::readonly
readonly(b, on) == SetFlag(b, "MD_READONLY", on)
\* Builder::verify
verify(b, on) == SetFlag(b, "MD_VERIFY", on)

\* Builder::heads_per_cylinder
heads_per_cylinder(b, heads) == [b EXCEPT !.mdio.md_fwheads = heads]
\* Builder::sectors_per_track
sectors_per_track(b, sectors) == [b EXCEPT !.mdio.md_fwsectors = sectors]
\* Builder::sectorsize
sectorsize(b, ssize) == [b EXCEPT !.mdio.md_sectorsize = ssize]
\* Builder::size
size(b, s) == [b EXCEPT !.mdio.md_mediasize = s]
\* Builder::label
label(b, text) == [b EXCEPT !.label = {PadBuf(text)}]

\* A mutant of unit: the auto-unit bit is left as it was.
unit_keeps_auto(b, u) == [b EXCEPT !.mdio.md_unit = u]

\* Builder::unit
unit(b, u) ==
    [b EXCEPT !.mdio.md_unit = u,
              !.mdio.md_options = @ \ {"MD_AUTOUNIT"}]


\* ------------------------------------------------------------------- errors

Ok == [err |-> {}]
Err(site, errno) == [err |-> {[site |-> site, errno |-> errno]}]

\* ------------------------------------------------- the file system (stat(2))

\* fs::metadata(path) against the file system fs (a function from path to the
\* Option of the file's length): a path that does not fit a PATH_MAX buffer with
\* its terminator is refused by the system call, a missing file is not found.
Metadata(fs, path) ==
    IF Len(path) >= PATH_MAX THEN Err("metadata", "ENAMETOOLONG") @@ [size |-> 0]
    ELSE IF fs[path] = {} THEN Err("metadata", "ENOENT") @@ [size |-> 0]
    ELSE Ok @@ [size |-> CHOOSE n \in fs[path] : TRUE]

\* ------------------------------------------------------ the md(4) driver
\* The kernel side of the three control calls.  k is the driver's table of
\* units: k[u] is {} when unit u is free and {dev} when it is attached.

FreeUnits(k) == {u \in Units : k[u] = {}}

LowestFree(k) == CHOOSE u \in FreeUnits(k) : \A v \in FreeUnits(k) : u <= v

\* copyinstr of a user buffer into a PATH_MAX kernel buffer fails when the
\* buffer holds no NUL.
Unterminated(ptr) == \E buf \in ptr : NulAt(buf, 1) = 0

\* The unit an attach request is for: the lowest free one when MD_AUTOUNIT is
\* set, the requested one otherwise.
AttachUnit(k, rec) ==
    IF "MD_AUTOUNIT" \in rec.md_options THEN LowestFree(k) ELSE rec.md_unit

\* MDIOCATTACH: the errno, or "OK".
AttachErrno(k, fs, rec) ==
    IF Unterminated(rec.md_label) \/ Unterminated(rec.md_file)
        THEN "ENAMETOOLONG"
    ELSE IF rec.md_type = "MD_VNODE" /\ rec.md_file = {} THEN "EINVAL"
    ELSE IF rec.md_type = "MD_VNODE"
            /\ \E buf \in rec.md_file : fs[CStr(buf)] = {} THEN "ENOENT"
    ELSE IF rec.md_mediasize <= 0 THEN "EINVAL"
    ELSE IF "MD_AUTOUNIT" \in rec.md_options /\ FreeUnits(k) = {} THEN "ENOSPC"
    ELSE IF "MD_AUTOUNIT" \notin rec.md_options /\ rec.md_unit \notin Units
        THEN "EINVAL"
    ELSE IF "MD_AUTOUNIT" \notin rec.md_options /\ k[rec.md_unit] # {}
        THEN "EBUSY"
    ELSE "OK"

\* The device a successful attach creates; owner is the identity of the handle
\* the create is for (a ghost field: the driver keeps no such thing).
NewDev(rec, owner) ==
    [type       |-> rec.md_type,
     mediasize  |-> rec.md_mediasize,
     sectorsize |-> rec.md_sectorsize,
     options    |-> rec.md_options \ {"MD_AUTOUNIT"},
     fwheads    |-> rec.md_fwheads,
     fwsectors  |-> rec.md_fwsectors,
     file       |-> {CStr(buf) : buf \in rec.md_file},
     label      |-> {CStr(buf) : buf \in rec.md_label},
     opencount  |-> 0,
     owner      |-> owner]

\* MDIOCATTACH: the result, the driver's table afterwards and the record as the
\* kernel leaves it (md_unit rewritten when the unit was auto-assigned).
KAttach(k, fs, rec, owner) ==
    LET e == AttachErrno(k, fs, rec) IN
    IF e # "OK" THEN Err("ioctl", e) @@ [kern |-> k, rec |-> rec]
    ELSE LET u == AttachUnit(k, rec) IN
         Ok @@ [kern |-> [k EXCEPT ![u] = {NewDev(rec, owner)}],
                rec  |-> [rec EXCEPT !.md_unit = u]]

\* MDIOCDETACH: refused while the device is open unless MD_FORCE is set.
KDetach(k, rec) ==
    IF rec.md_unit \notin Units \/ k[rec.md_unit] = {}
        THEN Err("ioctl", "ENOENT") @@ [kern |-> k]
    ELSE IF (\E d \in k[rec.md_unit] : d.opencount # 0)
            /\ "MD_FORCE" \notin rec.md_options
        THEN Err("ioctl", "EBUSY") @@ [kern |-> k]
    ELSE Ok @@ [kern |-> [k EXCEPT ![rec.md_unit] = {}]]

\* MDIOCRESIZE: shrinking is refused unless MD_FORCE is set.
KResize(k, rec) ==
    IF rec.md_unit \notin Units \/ k[rec.md_unit] = {}
        THEN Err("ioctl", "ENOENT") @@ [kern |-> k]
    ELSE IF rec.md_mediasize <= 0 THEN Err("ioctl", "EINVAL") @@ [kern |-> k]
    ELSE IF (\E d \in k[rec.md_unit] : rec.md_mediasize < d.mediasize)
            /\ "MD_FORCE" \notin rec.md_options
        THEN Err("ioctl", "EBUSY") @@ [kern |-> k]
    ELSE Ok @@ [kern |-> [k EXCEPT ![rec.md_unit] =
                            {[d EXCEPT !.mediasize = rec.md_mediasize] : d \in @}]]

\* fs::File::open("/dev/mdctl"): chan is "OK" or the errno of the failed open.
OpenCtl(chan) == IF chan = "OK" THEN Ok ELSE Err("open", chan)

\* ----------------------------------------------------------- Builder::create

\* A mutant of FillSize: the file's length always replaces the size.
FillSize_always(mediasize, fsize) == as_i64(fsize)

\* `if self.mdio.md_mediasize == 0 { self.mdio.md_mediasize = md.size() as off_t }`
FillSize(mediasize, fsize) ==
    IF mediasize = 0 THEN as_i64(fsize) ELSE mediasize

\* A mutant of Marshal: a failed metadata read is not propagated, the size is
\* then left as it is.
Marshal_ignores_metadata(b, chan, fs) ==
    LET devmd == OpenCtl(chan) IN
    IF devmd.err # {} THEN devmd @@ [mdio |-> b.mdio, reads |-> 0, opened |-> 0]
    ELSE
    LET withFile ==
            IF b.filename # {}
            THEN LET filename == CHOOSE p \in b.filename : TRUE
                     md == Metadata(fs, filename)
                 IN Ok @@ [mdio |-> [b.mdio EXCEPT
                              !.md_mediasize =
                                  IF md.err # {} THEN @ ELSE FillSize(@, md.size),
                              !.md_file = {PadBuf(filename)}],
                           reads |-> 1, opened |-> 1]
            ELSE Ok @@ [mdio |-> b.mdio, reads |-> 0, opened |-> 1]
    IN [withFile EXCEPT !.mdio.md_label = b.label]

\* Builder::create up to the attach call: the channel open, the metadata read
\* and the marshalling of the record.  reads counts the metadata reads made,
\* opened the descriptors of the control channel obtained (devmd).
Marshal(b, chan, fs) ==
    LET devmd == OpenCtl(chan) IN
    IF devmd.err # {} THEN devmd @@ [mdio |-> b.mdio, reads |-> 0, opened |-> 0]
    ELSE
    LET withFile ==
            IF b.filename # {}
            THEN LET filename == CHOOSE p \in b.filename : TRUE
                     md == Metadata(fs, filename)
                 IN IF md.err # {}
                    THEN [err |-> md.err, mdio |-> b.mdio, reads |-> 1,
                          opened |-> 1]
                    ELSE Ok @@ [mdio |-> [b.mdio EXCEPT
                                   !.md_mediasize = FillSize(@, md.size),
                                   !.md_file = {PadBuf(filename)}],
                                reads |-> 1, opened |-> 1]
            ELSE Ok @@ [mdio |-> b.mdio, reads |-> 0, opened |-> 1]
    IN IF withFile.err # {} THEN withFile
       ELSE [withFile EXCEPT !.mdio.md_label = b.label]

\* An Md value: the state of the handle and its three fields.
NoMd == [st |-> "None", unit |-> 0, name |-> "", path |-> ""]

\* A mutant of NewMd: the path is the name appended to "/dev" as it is.
NewMd_no_separator(mdio) ==
    LET name == "md" \o Decimal(mdio.md_unit) IN
    [st |-> "Attached", unit |-> mdio.md_unit, name |-> name,
     path |-> "/dev" \o name]

\* The Md that create returns for the record the kernel left.
NewMd(mdio) ==
    LET name == "md" \o Decimal(mdio.md_unit) IN
    [st |-> "Attached", unit |-> mdio.md_unit, name |-> name,
     path |-> "/dev" \o "/" \o name]

\* A mutant of create: the descriptor is not closed when create returns early
\* with an error.
create_leaks(b, chan, fs, k, h) ==
    LET m == Marshal(b, chan, fs) IN
    IF m.err # {}
    THEN [err |-> m.err, opens |-> 1, reads |-> m.reads, ioctls |-> <<>>,
          kern |-> k, md |-> NoMd, opened |-> m.opened, closed |-> 0]
    ELSE LET r == KAttach(k, fs, m.mdio, h) IN
         [err |-> r.err, opens |-> 1, reads |-> m.reads,
          ioctls |-> <<[code |-> "MDIOCATTACH", rec |-> m.mdio]>>,
          kern |-> r.kern,
          md |-> IF r.err # {} THEN NoMd ELSE NewMd(r.rec),
          opened |-> 1, closed |-> 1]

\* Builder::create: the result, the channel opens made, the metadata reads made,
\* the control calls issued (with the record as passed), the driver's table
\* afterwards and the handle returned (NoMd on an error).  opened and closed
\* count the descriptors of the control channel obtained and closed: devmd is
\* a local, dropped on whichever path the function returns by.
create(b, chan, fs, k, h) ==
    LET m == Marshal(b, chan, fs) IN
    IF m.err # {}
    THEN [err |-> m.err, opens |-> 1, reads |-> m.reads, ioctls |-> <<>>,
          kern |-> k, md |-> NoMd, opened |-> m.opened, closed |-> m.opened]
    ELSE LET r == KAttach(k, fs, m.mdio, h) IN
         [err |-> r.err, opens |-> 1, reads |-> m.reads,
          ioctls |-> <<[code |-> "MDIOCATTACH", rec |-> m.mdio]>>,
          kern |-> r.kern,
          md |-> IF r.err # {} THEN NoMd ELSE NewMd(r.rec),
          opened |-> 1, closed |-> 1]

\* ----------------------------------------------------------------------- Md

\* The record Md::detach and Md::resize build: everything zero or null but the
\* unit, the size and the options.
MinimalRec(u, mediasize, options) ==
    [md_version    |-> "MDIOVERSION",
     md_unit       |-> u,
     md_type       |-> "0",
     md_file       |-> {},
     md_mediasize  |-> mediasize,
     md_sectorsize |-> 0,
     md_options    |-> options,
     md_base       |-> 0,
     md_fwheads    |-> 0,
     md_fwsectors  |-> 0,
     md_label      |-> {},
     md_pad        |-> 0]

\* A mutant of DetachOptions: the force bit is never set.
DetachOptions_unforced(force) == {}

\* `let md_options = if force { ffi::MD_FORCE } else { 0 };`
DetachOptions(force) == IF force THEN {"MD_FORCE"} ELSE {}

\* A mutant of detach: a refused call is issued a second time.
detach_retries(self, force, chan, k) ==
    LET mdio == MinimalRec(self.unit, 0, DetachOptions(force))
        mddev == OpenCtl(chan)
        call == [code |-> "MDIOCDETACH", rec |-> mdio]
    IN IF mddev.err # {}
       THEN [err |-> mddev.err, opens |-> 1, ioctls |-> <<>>, kern |-> k,
             opened |-> 0, closed |-> 0]
       ELSE LET r == KDetach(k, mdio) IN
            [err |-> r.err, opens |-> 1,
             ioctls |-> IF r.err # {} THEN <<call, call>> ELSE <<call>>,
             kern |-> r.kern, opened |-> 1, closed |-> 1]

\* Md::detach.  opened and closed count the descriptors of the control channel
\* obtained and closed: mddev is a local, dropped when the function returns.
detach(self, force, chan, k) ==
    LET mdio == MinimalRec(self.unit, 0, DetachOptions(force))
        mddev == OpenCtl(chan)
    IN IF mddev.err # {}
       THEN [err |-> mddev.err, opens |-> 1, ioctls |-> <<>>, kern |-> k,
             opened |-> 0, closed |-> 0]
       ELSE LET r == KDetach(k, mdio) IN
            [err |-> r.err, opens |-> 1,
             ioctls |-> <<[code |-> "MDIOCDETACH", rec |-> mdio]>>,
             kern |-> r.kern, opened |-> 1, closed |-> 1]

\* A mutant of resize: the force bit is never put in the record.
resize_unforced(self, newsize, force, chan, k) ==
    LET mdio == MinimalRec(self.unit, newsize, {})
        devmd == OpenCtl(chan)
    IN IF devmd.err # {}
       THEN [err |-> devmd.err, opens |-> 1, ioctls |-> <<>>, kern |-> k,
             opened |-> 0, closed |-> 0]
       ELSE LET r == KResize(k, mdio) IN
            [err |-> r.err, opens |-> 1,
             ioctls |-> <<[code |-> "MDIOCRESIZE", rec |-> mdio]>>,
             kern |-> r.kern, opened |-> 1, closed |-> 1]

\* Md::resize
resize(self, newsize, force, chan, k) ==
    LET mdio == MinimalRec(self.unit, newsize,
                           IF force THEN {"MD_FORCE"} ELSE {})
        devmd == OpenCtl(chan)
    IN IF devmd.err # {}
       THEN [err |-> devmd.err, opens |-> 1, ioctls |-> <<>>, kern |-> k,
             opened |-> 0, closed |-> 0]
       ELSE LET r == KResize(k, mdio) IN
            [err |-> r.err, opens |-> 1,
             ioctls |-> <<[code |-> "MDIOCRESIZE", rec |-> mdio]>>,
             kern |-> r.kern, opened |-> 1, closed |-> 1]

\* A mutant of try_destroy: the handle is forgotten whatever detach returned.
try_destroy_forgets(self, chan, k) ==
    LET r == detach(self, FALSE, chan, k) IN
    r @@ [md |-> [self EXCEPT !.st = "Destroyed"]]

\* A mutant of try_destroy: the handle is not forgotten on success, so that
\* it stays live and its destructor will run.
try_destroy_keeps(self, chan, k) ==
    LET r == detach(self, FALSE, chan, k) IN
    r @@ [md |-> self]

\* A mutant of try_destroy: on failure the handle is not handed back but
\* dropped, so that its destructor's forced detach runs at once.
try_destroy_drops(self, chan, k) ==
    LET r == detach(self, FALSE, chan, k) IN
    IF r.err = {} THEN r @@ [md |-> [self EXCEPT !.st = "Destroyed"]]
    ELSE [err |-> r.err, opens |-> r.opens, ioctls |-> r.ioctls,
          opened |-> r.opened, closed |-> r.closed,
          kern |-> detach(self, TRUE, "OK", k).kern,
          md |-> [self EXCEPT !.st = "Dropped"]]

\* Md::try_destroy: the detach it makes and the handle afterwards: forgotten
\* (no destructor will run) on success, handed back unchanged on failure.
try_destroy(self, chan, k) ==
    LET r == detach(self, FALSE, chan, k) IN
    r @@ [md |-> IF r.err = {} THEN [self EXCEPT !.st = "Destroyed"] ELSE self]

\* A mutant of DropPanics: the destructor panics on every error.
DropPanics_always(r, isPanicking) == r.err # {}

\* `if !std::thread::panicking() { r.expect(..) }`: whether drop panics.
DropPanics(r, isPanicking) == ~isPanicking /\ r.err # {}

\* Drop for Md: the forced detach, whether the destructor panics, and the
\* handle afterwards (gone).
drop(self, isPanicking, chan, k) ==
    LET r == detach(self, TRUE, chan, k) IN
    r @@ [panicked |-> DropPanics(r, isPanicking),
          md |-> [self EXCEPT !.st = "Dropped"]]


\* ------------------------------------------------------------ state machine

VARIABLES
    builder,    \* Option<Builder>: the Builder the caller is configuring
    hist,       \* ghost: the constructor and the modifier calls builder was made by
    md,         \* md[h]: the Md value with identity h
    ghost,      \* ghost: per handle, the detach calls made on its behalf
    kern,       \* the md(4) driver's table of units
    files,      \* the file system: path -> Option<length>
    panicking,  \* std::thread::panicking()
    mdctl,      \* the descriptors of /dev/mdctl the process holds
    lastOp      \* ghost: what the last library call did and returned

vars == <<builder, hist, md, ghost, kern, files, panicking, mdctl, lastOp>>

\* Constructor sizes (u64): small ones and the ones around the sign bit.
SizeArgs == {0, 1, 2, Pow2(OffBits - 1), Pow2(OffBits) - 1}
\* Sizes given to Builder::size and Md::resize (off_t).
OffArgs == {0, 1, 3}
\* Sizes the handles' devices are created with and resized to.
LifeSizes == {2}
ResizeArgs == {1, 2}
\* The unit their builders ask for, when they ask for one.
LifeUnits == {MaxHandles}
\* The backing paths of the file-backed devices: the short one and one that
\* does not fit the buffer.
LifePaths == {Bytes(2), Bytes(PATH_MAX)}
\* Lengths of the backing files.
FileLens == {0, 2}
\* Backing paths: a short one, the longest that fits the buffer with its
\* terminator, and two that do not fit.
ShortPath == Bytes(2)
Paths == {ShortPath, Bytes(PATH_MAX - 1), Bytes(PATH_MAX), Bytes(PATH_MAX + 1)}
\* The paths a file system can hold.
FsPaths == {p \in Paths : Len(p) < PATH_MAX}
\* Labels: empty, short, the longest that fits, and two that do not fit.
Labels == {Bytes(0), Bytes(2), Bytes(PATH_MAX - 1), Bytes(PATH_MAX),
           Bytes(PATH_MAX + 1)}
\* Outcomes of opening /dev/mdctl.
ChanOutcomes == {"OK", "EACCES"}

\* hist: the constructor called (its size argument, its path), the last argument given to
\* unit, size and label (an Option each), and the number of modifier calls.
NoHist ==
    [ctor |-> "none", arg |-> {}, path |-> {}, unit |-> {}, size |-> {},
     label |-> {}, n |-> 0]

\* ghost[h]: the forced detach calls issued for h, whether a detach of h was
\* refused with EBUSY, the detach calls that succeeded, and the result of the
\* destructor's detach once it has run.
NoGhost == [forced |-> 0, ebusy |-> 0, detached |-> 0, dropErr |-> {}]

\* lastOp: the call (op), how its open of the control channel went (chan) and
\* the handle it was on or returned (h, self: the
\* Md as it was when the call was made; hist: how the Builder that create
\* consumed was made); what the environment was when it was
\* made (wasPanicking; busy: the handle's device was open elsewhere; stat: the
\* length of the Builder's backing file); and what the call did: its result
\* (err), the opens of the control channel, the metadata reads, the control
\* calls issued with their records, and whether it panicked.
NoOp ==
    [op |-> "none", h |-> 0, self |-> NoMd, hist |-> NoHist, chan |-> "none",
     wasPanicking |-> FALSE, busy |-> FALSE, stat |-> {}, err |-> {},
     opens |-> 0, reads |-> 0, ioctls |-> <<>>, panicked |-> FALSE]

Init ==
    /\ builder = {}
    /\ hist = NoHist
    /\ md = [h \in Handles |-> NoMd]
    /\ ghost = [h \in Handles |-> NoGhost]
    /\ kern = [u \in Units |-> {}]
    /\ files = [p \in FsPaths |-> {2}]
    /\ panicking = FALSE
    /\ mdctl = 0
    /\ lastOp = NoOp

TheBuilder == CHOOSE b \in builder : TRUE

\* A constructor call: the caller starts a new Builder.
Construct(b, ctor, arg) ==
    /\ ~panicking
    /\ builder = {}
    /\ builder' = {b}
    /\ hist' = [NoHist EXCEPT !.ctor = ctor, !.arg = arg,
                                !.path = b.filename]
    /\ lastOp' = [NoOp EXCEPT !.op = "new"]
    /\ UNCHANGED <<md, ghost, kern, files, panicking, mdctl>>

Malloc(s) == Construct(malloc(s), "malloc", {s})
Null(s) == Construct(null(s), "null", {s})
Swap(s) == Construct(swap(s), "swap", {s})
Vnode(p) == Construct(vnode(p), "vnode", {})

\* A modifier call on the Builder; h is the ghost history afterwards.
Modify(b, h) ==
    /\ ~panicking
    /\ builder # {}
    /\ hist.n < MaxMods
    /\ builder' = {b}
    /\ hist' = [h EXCEPT !.n = @ + 1]
    /\ UNCHANGED <<md, ghost, kern, files, panicking, mdctl, lastOp>>

Async(on) == Modify(async_(TheBuilder, on), hist)
Cache(on) == Modify(cache(TheBuilder, on), hist)
Compress(on) == Modify(compress(TheBuilder, on), hist)
Mustdealloc(on) == Modify(mustdealloc(TheBuilder, on), hist)
Reserve(on) == Modify(reserve(TheBuilder, on), hist)
Readonly(on) == Modify(readonly(TheBuilder, on), hist)
Verify(on) == Modify(verify(TheBuilder, on), hist)
HeadsPerCylinder(n) == Modify(heads_per_cylinder(TheBuilder, n), hist)
SectorsPerTrack(n) == Modify(sectors_per_track(TheBuilder, n), hist)
Sectorsize(n) == Modify(sectorsize(TheBuilder, n), hist)
Size(s) == Modify(size(TheBuilder, s), [hist EXCEPT !.size = {s}])
Label(t) == Modify(label(TheBuilder, t), [hist EXCEPT !.label = {t}])
Unit(u) == Modify(unit(TheBuilder, u), [hist EXCEPT !.unit = {u}])

\* The identity the next handle gets.
FreshHandles == {h \in Handles : md[h].st = "None"}
NextHandle == CHOOSE h \in FreshHandles : \A g \in FreshHandles : h <= g

\* The length of the file at a path, when there is one.
StatOf(filename) ==
    UNION {files[p] : p \in filename \cap DOMAIN files}

\* The handle's device is open somewhere else.
Busy(self) == \E d \in kern[self.unit] : d.opencount # 0

\* Builder::create
Create(chan) ==
    /\ ~panicking
    /\ builder # {}
    /\ FreshHandles # {}
    /\ LET h == NextHandle
           r == create(TheBuilder, chan, files, kern, h)
       IN /\ md' = [md EXCEPT ![h] = r.md]
          /\ kern' = r.kern
          /\ mdctl' = mdctl + r.opened - r.closed
          /\ lastOp' = [NoOp EXCEPT !.op = "create", !.h = h, !.hist = hist,
                        !.chan = chan,
                        !.stat = StatOf(TheBuilder.filename),
                        !.err = r.err, !.opens = r.opens, !.reads = r.reads,
                        !.ioctls = r.ioctls]
    /\ builder' = {}
    /\ hist' = NoHist
    /\ UNCHANGED <<ghost, files, panicking>>

\* The detach calls of an operation, added to the handle's ghost record.
Counted(g, r, force) ==
    [g EXCEPT !.forced = IF force THEN @ + Len(r.ioctls) ELSE @,
              !.ebusy = IF \E e \in r.err : e.errno = "EBUSY" THEN 1 ELSE @,
              !.detached = IF r.ioctls # <<>> /\ r.err = {} THEN @ + 1 ELSE @]

\* Md::resize
Resize(h, newsize, force, chan) ==
    /\ ~panicking
    /\ md[h].st = "Attached"
    /\ LET r == resize(md[h], newsize, force, chan, kern)
       IN /\ kern' = r.kern
          /\ mdctl' = mdctl + r.opened - r.closed
          /\ lastOp' = [NoOp EXCEPT !.op = "resize", !.h = h, !.self = md[h],
                        !.chan = chan,
                        !.busy = Busy(md[h]), !.err = r.err,
                        !.opens = r.opens, !.ioctls = r.ioctls]
    /\ UNCHANGED <<builder, hist, md, ghost, files, panicking>>

\* Md::try_destroy
TryDestroy(h, chan) ==
    /\ ~panicking
    /\ md[h].st = "Attached"
    /\ LET r == try_destroy(md[h], chan, kern)
       IN /\ md' = [md EXCEPT ![h] = r.md]
          /\ kern' = r.kern
          /\ mdctl' = mdctl + r.opened - r.closed
          /\ ghost' = [ghost EXCEPT ![h] = Counted(@, r, FALSE)]
          /\ lastOp' = [NoOp EXCEPT !.op = "try_destroy", !.h = h, !.chan = chan,
                        !.self = md[h], !.busy = Busy(md[h]), !.err = r.err,
                        !.opens = r.opens, !.ioctls = r.ioctls]
    /\ UNCHANGED <<builder, hist, files, panicking>>

\* A live Md goes out of scope (in normal flow or while unwinding): Drop runs.
\* A panic raised by the destructor starts the unwinding of the thread.
Drop(h, chan) ==
    /\ md[h].st = "Attached"
    /\ LET r == drop(md[h], panicking, chan, kern)
       IN /\ md' = [md EXCEPT ![h] = r.md]
          /\ kern' = r.kern
          /\ mdctl' = mdctl + r.opened - r.closed
          /\ ghost' = [ghost EXCEPT ![h] =
                         [Counted(@, r, TRUE) EXCEPT !.dropErr = r.err]]
          /\ panicking' = (panicking \/ r.panicked)
          /\ builder' = IF r.panicked THEN {} ELSE builder
          /\ hist' = IF r.panicked THEN NoHist ELSE hist
          /\ lastOp' = [NoOp EXCEPT !.op = "drop", !.h = h, !.self = md[h],
                        !.chan = chan,
                        !.wasPanicking = panicking, !.busy = Busy(md[h]),
                        !.err = r.err, !.opens = r.opens,
                        !.ioctls = r.ioctls, !.panicked = r.panicked]
    /\ UNCHANGED files

\* The caller's own code panics: the thread unwinds, dropping what is in scope.
Panic ==
    /\ ~panicking
    /\ panicking' = TRUE
    /\ builder' = {}
    /\ hist' = NoHist
    /\ UNCHANGED <<md, ghost, kern, files, mdctl, lastOp>>

\* Another holder opens the device node of unit u, or closes it.
ExtOpen(u) ==
    /\ \E d \in kern[u] :
         /\ d.opencount < MaxOpen
         /\ kern' = [kern EXCEPT ![u] = {[d EXCEPT !.opencount = @ + 1]}]
    /\ UNCHANGED <<builder, hist, md, ghost, files, panicking, mdctl, lastOp>>

ExtClose(u) ==
    /\ \E d \in kern[u] :
         /\ d.opencount > 0
         /\ kern' = [kern EXCEPT ![u] = {[d EXCEPT !.opencount = @ - 1]}]
    /\ UNCHANGED <<builder, hist, md, ghost, files, panicking, mdctl, lastOp>>

\* Something outside the library rewrites, truncates or removes a backing file.
ExtWrite(p, len) ==
    /\ files[p] # len
    /\ files' = [files EXCEPT ![p] = len]
    /\ UNCHANGED <<builder, hist, md, ghost, kern, panicking, mdctl, lastOp>>

\* The life of the handles: devices are created, resized, held open by others,
\* destroyed and dropped.
Next ==
    \/ \E s \in LifeSizes : Swap(s)
    \/ \E u \in LifeUnits : hist.n = 0 /\ Unit(u)
    \/ \E c \in ChanOutcomes : Create(c)
    \/ \E h \in Handles, s \in ResizeArgs, f \in BOOLEAN, c \in ChanOutcomes :
          Resize(h, s, f, c)
    \/ \E h \in Handles, c \in ChanOutcomes : TryDestroy(h, c)
    \/ \E h \in Handles, c \in ChanOutcomes : Drop(h, c)
    \/ Panic
    \/ \E u \in Units : ExtOpen(u)
    \/ \E u \in Units : ExtClose(u)

Spec == Init /\ [][Next]_vars

\* No handle has been created yet.
NoHandle == \A h \in Handles : md[h].st = "None"

\* The Builder: every constructor and modifier, then create, up to the first
\* handle.
NextBuilder ==
    \/ \E s \in SizeArgs : NoHandle /\ Malloc(s)
    \/ \E s \in SizeArgs : NoHandle /\ Null(s)
    \/ \E s \in SizeArgs : NoHandle /\ Swap(s)
    \/ \E p \in Paths : NoHandle /\ Vnode(p)
    \/ \E on \in BOOLEAN : Async(on)
    \/ \E on \in BOOLEAN : Cache(on)
    \/ \E on \in BOOLEAN : Compress(on)
    \/ \E on \in BOOLEAN : Mustdealloc(on)
    \/ \E on \in BOOLEAN : Reserve(on)
    \/ \E on \in BOOLEAN : Readonly(on)
    \/ \E on \in BOOLEAN : Verify(on)
    \/ HeadsPerCylinder(4)
    \/ SectorsPerTrack(8)
    \/ Sectorsize(1)
    \/ \E s \in OffArgs : Size(s)
    \/ \E t \in Labels : Label(t)
    \/ \E u \in Units : Unit(u)
    \/ \E c \in ChanOutcomes : Create(c)
    \/ \E len \in {{}} \cup {{n} : n \in FileLens} :
          NoHandle /\ ExtWrite(ShortPath, len)

SpecBuilder == Init /\ [][NextBuilder]_vars


\* The life of file-backed devices: the backing file is written, truncated
\* or removed, devices are created from it, resized, held open by others,
\* destroyed and dropped.
NextVnode ==
    \/ \E p \in LifePaths : Vnode(p)
    \/ \E u \in LifeUnits : hist.n = 0 /\ Unit(u)
    \/ \E len \in {{}} \cup {{n} : n \in FileLens} :
          NoHandle /\ ExtWrite(ShortPath, len)
    \/ \E c \in ChanOutcomes : Create(c)
    \/ \E h \in Handles, s \in ResizeArgs, f \in BOOLEAN, c \in ChanOutcomes :
          Resize(h, s, f, c)
    \/ \E h \in Handles, c \in ChanOutcomes : TryDestroy(h, c)
    \/ \E h \in Handles, c \in ChanOutcomes : Drop(h, c)
    \/ Panic
    \/ \E u \in Units : ExtOpen(u)
    \/ \E u \in Units : ExtClose(u)

SpecVnode == Init /\ [][NextVnode]_vars


\* The configuring of a Builder alone: one constructor call, then modifier
\* calls.
NextModifiers ==
    \/ \E s \in LifeSizes : Malloc(s)
    \/ \E s \in LifeSizes : Null(s)
    \/ \E s \in LifeSizes : Swap(s)
    \/ Vnode(ShortPath)
    \/ \E on \in BOOLEAN : Async(on)
    \/ \E on \in BOOLEAN : Cache(on)
    \/ \E on \in BOOLEAN : Compress(on)
    \/ \E on \in BOOLEAN : Mustdealloc(on)
    \/ \E on \in BOOLEAN : Reserve(on)
    \/ \E on \in BOOLEAN : Readonly(on)
    \/ \E on \in BOOLEAN : Verify(on)
    \/ HeadsPerCylinder(4)
    \/ SectorsPerTrack(8)
    \/ Sectorsize(1)
    \/ \E s \in OffArgs : Size(s)
    \/ \E t \in Labels : Label(t)
    \/ \E u \in Units : Unit(u)

SpecModifiers == Init /\ [][NextModifiers]_vars


\* ------------------------------------------------------------------- claims

Live(h) == md[h].st = "Attached"

\* The device that the create of handle h attached is still attached.
DevAttached(h) == \E u \in Units : \E d \in kern[u] : d.owner = h

\* The control channel could not be opened by the last call.
OpenFailed == \E e \in lastOp.err : e.site = "open"

\* The detach call of unit u, forced or not, as the last call's only call.
IssuedDetach(u, force) ==
    lastOp.ioctls =
        <<[code |-> "MDIOCDETACH",
           rec  |-> MinimalRec(u, 0, IF force THEN {"MD_FORCE"} ELSE {})]>>

\* C1 as stated: every device attached by a successful create either still has
\* a live Md handle or has been detached.
C1_NeverLeaked == \A h \in Handles : DevAttached(h) => Live(h)

\* C1 as amended: a device attached by a successful create has a live handle
\* or has been detached, unless its handle's destructor has run and the forced
\* detach it made failed: then the device stays attached without a handle.
C1_LeakedOnlyByFailedDrop ==
    \A h \in Handles :
        DevAttached(h) =>
            \/ Live(h)
            \/ md[h].st = "Dropped" /\ ghost[h].dropErr # {}

\* A handle whose try_destroy was refused with EBUSY was dropped while the
\* thread was unwinding, and the device is gone.
C1_Witness ==
    \E h \in Handles :
        /\ md[h].st = "Dropped"
        /\ ghost[h].ebusy = 1
        /\ ghost[h].dropErr = {}
        /\ ~DevAttached(h)
        /\ lastOp.op = "drop" /\ lastOp.wasPanicking

\* C2 as stated: Drop always issues a detach call with the force bit for the
\* handle's unit, and afterwards the device no longer exists.
C2_DropAlwaysDetaches ==
    lastOp.op = "drop" =>
        /\ IssuedDetach(lastOp.self.unit, TRUE)
        /\ kern[lastOp.self.unit] = {}

\* C2 as amended: Drop always opens the control channel, whatever happened to
\* the handle before; when the open succeeds it issues one detach call for the
\* handle's unit with the force bit set, that call succeeds and the device no
\* longer exists afterwards, even if it was open elsewhere; when the open
\* fails no call is issued and the device stays attached.
C2_DropForcedDetach ==
    lastOp.op = "drop" =>
        /\ lastOp.opens = 1
        /\ md[lastOp.h].st = "Dropped"
        /\ ~OpenFailed =>
              /\ IssuedDetach(lastOp.self.unit, TRUE)
              /\ lastOp.err = {}
              /\ kern[lastOp.self.unit] = {}
        /\ OpenFailed =>
              /\ lastOp.ioctls = <<>>
              /\ DevAttached(lastOp.h)

\* A handle that had a try_destroy refused was dropped while its device was
\* open elsewhere, and the device is gone.
C2_Witness ==
    /\ lastOp.op = "drop"
    /\ lastOp.busy
    /\ ghost[lastOp.h].ebusy = 1
    /\ lastOp.err = {}
    /\ kern[lastOp.self.unit] = {}

\* C3: a try_destroy that succeeds issues exactly one detach call, without the
\* force bit, and leaves the handle Destroyed; for a Destroyed handle no forced
\* detach has been issued, exactly one detach has succeeded and the device is
\* detached; and nothing changes a Destroyed handle or issues a call for it.
C3_DestroyedState ==
    /\ lastOp.op = "try_destroy" /\ lastOp.err = {} =>
          /\ IssuedDetach(lastOp.self.unit, FALSE)
          /\ md[lastOp.h].st = "Destroyed"
    /\ \A h \in Handles :
          md[h].st = "Destroyed" =>
              /\ ghost[h].forced = 0
              /\ ghost[h].detached = 1
              /\ ghost[h].dropErr = {}
              /\ ~DevAttached(h)

C3_DestroyedIsTerminal ==
    \A h \in Handles :
        md[h].st = "Destroyed" => md'[h] = md[h] /\ ghost'[h] = ghost[h]

C3_SuccessConsumes == []C3_DestroyedState /\ [][C3_DestroyedIsTerminal]_vars

\* A try_destroy has succeeded on a handle that had one refused before.
C3_Witness ==
    /\ lastOp.op = "try_destroy"
    /\ lastOp.err = {}
    /\ md[lastOp.h].st = "Destroyed"
    /\ ghost[lastOp.h].ebusy = 1

\* What C4 says of a failed try_destroy: the handle comes back as it was and
\* live, its device is still attached, and every operation can be invoked on it.
C4_FailureKeepsHandle ==
    lastOp.op = "try_destroy" /\ lastOp.err # {} =>
        /\ md[lastOp.h] = lastOp.self
        /\ Live(lastOp.h)
        /\ DevAttached(lastOp.h)
        /\ kern[lastOp.self.unit] # {}
        /\ ghost[lastOp.h].forced = 0
        /\ ENABLED Drop(lastOp.h, "OK")
        /\ ~panicking =>
              /\ ENABLED TryDestroy(lastOp.h, "OK")
              /\ \A s \in ResizeArgs : ENABLED Resize(lastOp.h, s, TRUE, "OK")

\* C4 as stated: a failed try_destroy hands the handle back unchanged and
\* usable with its device attached, and a try_destroy made while no other
\* holder has the device open succeeds.
C4_RetrySucceeds ==
    /\ C4_FailureKeepsHandle
    /\ lastOp.op = "try_destroy" /\ ~lastOp.busy => lastOp.err = {}

\* C4 as amended: a failed try_destroy hands the handle back unchanged and
\* usable with its device attached; a try_destroy made while no other holder
\* has the device open succeeds if the control channel can be opened, and one
\* made while the device is open elsewhere fails with EBUSY.
C4_RetrySucceedsIfChannelOpens ==
    /\ C4_FailureKeepsHandle
    /\ lastOp.op = "try_destroy" /\ ~lastOp.busy /\ ~OpenFailed =>
          lastOp.err = {}
    /\ lastOp.op = "try_destroy" /\ lastOp.busy /\ ~OpenFailed =>
          \E e \in lastOp.err : e.errno = "EBUSY"

\* A try_destroy was refused with EBUSY, the holder has closed the device, and
\* the try_destroy made on the handle that came back has succeeded.
C4_Witness ==
    /\ lastOp.op = "try_destroy"
    /\ ~lastOp.busy
    /\ lastOp.err = {}
    /\ ghost[lastOp.h].ebusy = 1
    /\ lastOp.self.st = "Attached"

\* C5: Drop makes its detach attempt whether or not the thread is unwinding,
\* and panics exactly when the attempt failed and the thread was not already
\* unwinding; a failure while unwinding is discarded without a second panic.
C5_DropPanicsUnlessUnwinding ==
    lastOp.op = "drop" =>
        /\ lastOp.opens = 1
        /\ lastOp.panicked <=> (lastOp.err # {} /\ ~lastOp.wasPanicking)
        /\ lastOp.panicked => panicking
        /\ lastOp.wasPanicking => ~lastOp.panicked /\ panicking
        /\ ghost[lastOp.h].dropErr = lastOp.err

\* A destructor's detach failed while the thread was unwinding, and no panic
\* was raised.
C5_Witness ==
    /\ lastOp.op = "drop"
    /\ lastOp.wasPanicking
    /\ lastOp.err # {}
    /\ ~lastOp.panicked


\* The record of the attach call the last create issued, if it issued one.
Attached == {c.rec : c \in {lastOp.ioctls[i] : i \in DOMAIN lastOp.ioctls}}

\* bytes followed by NUL bytes up to the capacity of the buffer.
NulPadded(bytes) == bytes \o [i \in 1..(PATH_MAX - Len(bytes)) |-> 0]

\* The device the last create attached.
Created == kern[md[lastOp.h].unit]

\* C6: a label of at most PATH_MAX - 1 bytes reaches the driver as those bytes
\* followed by NUL padding, and the driver reports it; with a longer label
\* create fails and no attach call carries a label.
C6_LabelFitsOrFails ==
    lastOp.op = "create" =>
        \A t \in lastOp.hist.label :
            /\ Len(t) <= PATH_MAX - 1 =>
                  /\ \A rec \in Attached : rec.md_label = {NulPadded(t)}
                  /\ lastOp.err = {} => \A d \in Created : d.label = {t}
            /\ Len(t) > PATH_MAX - 1 =>
                  /\ lastOp.err # {}
                  /\ Attached = {}

\* What holds of C6: the part about the labels that fit.
C6_ShortLabelRoundTrip ==
    lastOp.op = "create" =>
        \A t \in lastOp.hist.label :
            Len(t) <= PATH_MAX - 1 =>
                /\ \A rec \in Attached : rec.md_label = {NulPadded(t)}
                /\ lastOp.err = {} => \A d \in Created : d.label = {t}

\* The builder the last create consumed was made by vnode with a path that
\* does not fit the buffer with its terminator.
LongPath == \E p \in lastOp.hist.path : Len(p) + 1 > PATH_MAX

\* No attach call carries a path other than the builder's, NUL padded.
PathNeverTruncated ==
    lastOp.op = "create" =>
        \A rec \in Attached :
            /\ rec.md_file = {NulPadded(p) : p \in lastOp.hist.path}
            /\ \A p \in lastOp.hist.path : Len(p) + 1 <= PATH_MAX

\* C7 as stated: with a path that does not fit, create fails before any attach
\* call with a validation error, one that no system call reported; no attach
\* call carries a truncated path.
C7_ValidationError ==
    /\ PathNeverTruncated
    /\ lastOp.op = "create" /\ LongPath =>
          /\ lastOp.err # {}
          /\ Attached = {}
          /\ \A e \in lastOp.err : e.site \notin {"open", "metadata", "ioctl"}

\* C7 as amended: with a path that does not fit, create fails before any attach
\* call with an error a system call reported: that of the channel open when
\* the channel cannot be opened, else ENAMETOOLONG from the metadata read; no
\* attach call carries a truncated path.
C7_LongPathFailsBeforeAttach ==
    /\ PathNeverTruncated
    /\ lastOp.op = "create" /\ LongPath =>
          /\ lastOp.err # {}
          /\ Attached = {}
          /\ md[lastOp.h] = NoMd
          /\ \A e \in lastOp.err :
                \/ e.site = "open"
                \/ e.site = "metadata" /\ e.errno = "ENAMETOOLONG"

\* A create with a path that does not fit has failed at the metadata read.
C7_Witness ==
    /\ lastOp.op = "create"
    /\ LongPath
    /\ \E e \in lastOp.err : e.site = "metadata"
    /\ lastOp.reads = 1

\* The media size of the attach record of a File-backed builder is m.
VnodeSizeIs(m) == \A rec \in Attached : rec.md_mediasize = m

C9_UnitExcludesAuto ==
    /\ \A b \in builder :
          /\ ("MD_AUTOUNIT" \in b.mdio.md_options /\ b.mdio.md_unit = 0)
                <=> hist.unit = {}
          /\ \A u \in hist.unit :
                "MD_AUTOUNIT" \notin b.mdio.md_options /\ b.mdio.md_unit = u
    /\ lastOp.op = "create" =>
          /\ \A rec \in Attached :
                /\ "MD_AUTOUNIT" \in rec.md_options <=> lastOp.hist.unit = {}
                /\ \A u \in lastOp.hist.unit : rec.md_unit = u
          /\ lastOp.err = {} =>
                \A u \in lastOp.hist.unit :
                    /\ md[lastOp.h].st = "Attached"
                    /\ md[lastOp.h].unit = u
                    /\ Created # {}

\* A create has succeeded for a builder given unit(1) and another modifier
\* after it, and the handle's unit is 1.
C9_Witness ==
    /\ lastOp.op = "create"
    /\ lastOp.err = {}
    /\ lastOp.hist.unit = {1}
    /\ lastOp.hist.n = MaxMods
    /\ md[lastOp.h].unit = 1
    /\ \E d \in Created : d.options # {"MD_COMPRESS"}

\* The backing kind of each constructor.
KindOf(ctor) ==
    CASE ctor = "malloc" -> "MD_MALLOC"
      [] ctor = "null" -> "MD_NULL"
      [] ctor = "vnode" -> "MD_VNODE"
      [] ctor = "swap" -> "MD_SWAP"

\* C10: a builder fresh from a constructor has that constructor's kind and the
\* options MD_AUTOUNIT and MD_COMPRESS, with MD_CLUSTER besides exactly for
\* swap and vnode; and whatever modifiers are called, the kind stays.
C10_KindAndDefaults ==
    \A b \in builder :
        /\ b.mdio.md_type = KindOf(hist.ctor)
        /\ hist.n = 0 =>
              b.mdio.md_options =
                  {"MD_AUTOUNIT", "MD_COMPRESS"}
                      \cup (IF hist.ctor \in {"swap", "vnode"}
                            THEN {"MD_CLUSTER"} ELSE {})

\* A builder made by swap has had the most modifiers called on it, one of them
\* unit, and is still of the swap kind.
C10_Witness ==
    \E b \in builder :
        /\ hist.ctor = "swap"
        /\ hist.n = MaxMods
        /\ hist.unit # {}
        /\ b.mdio.md_type = "MD_SWAP"
        /\ "MD_CLUSTER" \in b.mdio.md_options

\* ---------------------------------------------------------------- C11 resize

\* The size of the device at unit u (an Option).
MediaSize(k, u) == {d.mediasize : d \in k[u]}

\* The one control call a resize(s, f) of handle h is to issue.
ResizeCall(h, s, f) ==
    <<[code |-> "MDIOCRESIZE",
       rec  |-> MinimalRec(md[h].unit, s, IF f THEN {"MD_FORCE"} ELSE {})]>>

\* What a step that is resize(s, f) on handle h does, as stated: the one
\* minimal record; a shrink without force fails and leaves the size; a growth
\* or a forced resize succeeds and the size is s.
ResizeAsStated(h, s, f) ==
    LET old == MediaSize(kern, md[h].unit)
        now == MediaSize(kern', md[h].unit)
    IN /\ lastOp'.ioctls = ResizeCall(h, s, f)
       /\ (~f /\ \E o \in old : s < o) => (lastOp'.err # {} /\ now = old)
       /\ (f \/ \E o \in old : s >= o) => (lastOp'.err = {} /\ now = {s})

\* C11 as stated: every resize(new_size, force) issues one resize call whose
\* record carries only the unit, new_size and the force bit iff force; a
\* shrink without force fails and leaves the size unchanged; a growth or any
\* forced resize succeeds and the size is then new_size.
C11_ResizeAlways ==
    [][lastOp'.op = "resize" =>
       \A h \in Handles, s \in ResizeArgs, f \in BOOLEAN, c \in ChanOutcomes :
          (lastOp'.h = h /\ lastOp'.chan = c /\ Resize(h, s, f, c))
             => ResizeAsStated(h, s, f)]_vars

\* C11 amended: that holds of every resize whose open of the control channel
\* succeeds; a resize whose open fails returns the error of the open, issues
\* no call and leaves the device as it was.
C11_ResizeIfChannelOpens ==
    [][lastOp'.op = "resize" =>
       \A h \in Handles, s \in ResizeArgs, f \in BOOLEAN, c \in ChanOutcomes :
          (lastOp'.h = h /\ lastOp'.chan = c /\ Resize(h, s, f, c)) =>
             IF c = "OK" THEN ResizeAsStated(h, s, f)
             ELSE /\ lastOp'.ioctls = <<>>
                  /\ lastOp'.err = Err("open", c).err
                  /\ kern' = kern]_vars

\* A forced resize has succeeded and left the device smaller than it was
\* created.
C11_Witness ==
    /\ lastOp.op = "resize"
    /\ lastOp.err = {}
    /\ Len(lastOp.ioctls) = 1
    /\ "MD_FORCE" \in lastOp.ioctls[1].rec.md_options
    /\ \E z \in MediaSize(kern, lastOp.self.unit) :
          /\ z = lastOp.ioctls[1].rec.md_mediasize
          /\ \A y \in LifeSizes : z < y

\* ------------------------------------------------- C12 the control channel

\* The calls that use the control channel.
ChannelOps == {"create", "resize", "try_destroy", "drop"}

\* C12: each of create, resize, try_destroy and drop opens the control channel
\* itself and has closed it again when it returns, on every path: between
\* operations the process holds no descriptor of it, and neither a Builder nor
\* an Md has a field to keep one in.
C12_ChannelClosedBetweenOps ==
    /\ mdctl = 0
    /\ lastOp.op \in ChannelOps => lastOp.opens = 1
    /\ \A b \in builder : DOMAIN b = {"mdio", "filename", "label"}
    /\ \A h \in Handles : DOMAIN md[h] \ {"st"} = {"name", "path", "unit"}

\* A create has opened the channel and then failed reading the metadata of
\* the backing file.
C12_Witness ==
    /\ lastOp.op = "create"
    /\ lastOp.opens = 1
    /\ \E e \in lastOp.err : e.site = "metadata"
    /\ mdctl = 0

\* ----------------------------------------------------------- C13 no retries

\* C13: every create, resize, try_destroy and drop opens the control channel
\* at most once and issues at most one control call; when the open fails the
\* call returns the error of the open with no control call issued, and a
\* create then has read no metadata and produced no handle.
C13_NoRetry ==
    lastOp.op \in ChannelOps =>
       /\ lastOp.opens <= 1
       /\ Len(lastOp.ioctls) <= 1
       /\ lastOp.chan # "OK" =>
             /\ lastOp.err = Err("open", lastOp.chan).err
             /\ lastOp.ioctls = <<>>
             /\ lastOp.op = "create" =>
                   /\ lastOp.reads = 0
                   /\ md[lastOp.h] = NoMd

\* The create of a device backed by an existing file has failed opening the
\* channel.
C13_Witness ==
    /\ lastOp.op = "create"
    /\ lastOp.hist.ctor = "vnode"
    /\ lastOp.stat # {}
    /\ lastOp.chan # "OK"
    /\ lastOp.err # {}

\* ------------------------------------------------------------ C14 modifiers

\* The option bit each boolean modifier is for.
FlagOf ==
    [async_ |-> "MD_ASYNC", cache |-> "MD_CACHE", compress |-> "MD_COMPRESS",
     mustdealloc |-> "MD_MUSTDEALLOC", reserve |-> "MD_RESERVE",
     readonly |-> "MD_READONLY", verify |-> "MD_VERIFY"]

\* The record field each of the other modifiers is for.
FieldOf ==
    [heads_per_cylinder |-> "md_fwheads", sectors_per_track |-> "md_fwsectors",
     sectorsize |-> "md_sectorsize", size |-> "md_mediasize",
     unit |-> "md_unit"]

\* The modifier calls: a modifier and its argument.
ModifierCalls ==
    {[name |-> n, arg |-> on] : n \in DOMAIN FlagOf, on \in BOOLEAN}
    \cup {[name |-> n, arg |-> a] :
              n \in {"heads_per_cylinder", "sectors_per_track", "sectorsize"},
              a \in {1, 4}}
    \cup {[name |-> "size", arg |-> a] : a \in OffArgs}
    \cup {[name |-> "label", arg |-> t] : t \in Labels}
    \cup {[name |-> "unit", arg |-> u] : u \in Units}

\* The Builder a modifier call returns.
Apply(m, b) ==
    CASE m.name = "async_" -> async_(b, m.arg)
      [] m.name = "cache" -> cache(b, m.arg)
      [] m.name = "compress" -> compress(b, m.arg)
      [] m.name = "mustdealloc" -> mustdealloc(b, m.arg)
      [] m.name = "reserve" -> reserve(b, m.arg)
      [] m.name = "readonly" -> readonly(b, m.arg)
      [] m.name = "verify" -> verify(b, m.arg)
      [] m.name = "heads_per_cylinder" -> heads_per_cylinder(b, m.arg)
      [] m.name = "sectors_per_track" -> sectors_per_track(b, m.arg)
      [] m.name = "sectorsize" -> sectorsize(b, m.arg)
      [] m.name = "size" -> size(b, m.arg)
      [] m.name = "label" -> label(b, m.arg)
      [] m.name = "unit" -> unit(b, m.arg)

\* The option bits a modifier call may change, and the value it gives them.
BitsOf(m) ==
    IF m.name \in DOMAIN FlagOf THEN {FlagOf[m.name]}
    ELSE IF m.name = "unit" THEN {"MD_AUTOUNIT"} ELSE {}

\* The call sets what it is for.
Sets(m, b) ==
    LET a == Apply(m, b) IN
    /\ m.name \in DOMAIN FlagOf => (FlagOf[m.name] \in a.mdio.md_options <=> m.arg)
    /\ m.name \in DOMAIN FieldOf => a.mdio[FieldOf[m.name]] = m.arg
    /\ m.name = "unit" => "MD_AUTOUNIT" \notin a.mdio.md_options
    /\ m.name = "label" => a.label = {PadBuf(m.arg)}

\* The call leaves everything else as it was.
Keeps(m, b) ==
    LET a == Apply(m, b) IN
    /\ a.filename = b.filename
    /\ m.name # "label" => a.label = b.label
    /\ \A f \in DOMAIN b.mdio \ {"md_options"} :
          (m.name \notin DOMAIN FieldOf \/ f # FieldOf[m.name])
             => a.mdio[f] = b.mdio[f]
    /\ \A bit \in (a.mdio.md_options \cup b.mdio.md_options) \ BitsOf(m) :
          bit \in a.mdio.md_options <=> bit \in b.mdio.md_options

\* C14: on every Builder, each modifier call sets its one field or option bit
\* (unit its field and the auto-unit bit) and leaves the rest; two calls of
\* different modifiers give the same Builder in either order, and two calls
\* of the same modifier give the Builder of the last call alone.
C14_ModifiersIndependent ==
    \A b \in builder :
       /\ \A m \in ModifierCalls : Sets(m, b) /\ Keeps(m, b)
       /\ \A m1, m2 \in ModifierCalls :
             IF m1.name # m2.name
             THEN Apply(m2, Apply(m1, b)) = Apply(m1, Apply(m2, b))
             ELSE Apply(m2, Apply(m1, b)) = Apply(m2, b)

\* A Builder that unit and label have both been called on.
C14_Witness ==
    /\ builder # {}
    /\ hist.n = 2
    /\ hist.unit # {}
    /\ hist.label # {}

\* ------------------------------------------------------- C15 the Md handle

\* The create that lastOp records returned an Md: it issued the attach call,
\* the call succeeded, and the Md is the handle of the device the driver then
\* attached, at the unit the driver left in the record (the requested one
\* unless auto-assign was requested).
CreatedByAttach ==
    /\ lastOp.err = {}
    /\ Len(lastOp.ioctls) = 1
    /\ lastOp.ioctls[1].code = "MDIOCATTACH"
    /\ md[lastOp.h].st = "Attached"
    /\ \E d \in kern[md[lastOp.h].unit] : d.owner = lastOp.h
    /\ "MD_AUTOUNIT" \notin lastOp.ioctls[1].rec.md_options
          => md[lastOp.h].unit = lastOp.ioctls[1].rec.md_unit

\* What holds of the handles in every state: a failed create leaves no handle
\* and nothing is ever detached for a handle that was not made; a successful
\* one leaves the handle of the attached unit; a handle's name is "md" and
\* its unit in decimal, its path "/dev/" and the name.
C15_HandleState ==
    /\ lastOp.op = "create" =>
          IF lastOp.err # {} THEN md[lastOp.h] = NoMd ELSE CreatedByAttach
    /\ \A h \in Handles :
          /\ md[h].st = "None" => md[h] = NoMd /\ ghost[h] = NoGhost
          /\ md[h].st # "None" =>
                /\ md[h].name = "md" \o ToString(md[h].unit)
                /\ md[h].path = "/dev/" \o md[h].name

\* What holds of every step: a handle comes to exist only by a create that
\* succeeded, and its unit, name and path are never changed afterwards.
C15_HandleStep ==
    \A h \in Handles :
       /\ (md[h].st = "None" /\ md'[h].st # "None") =>
             /\ lastOp'.op = "create"
             /\ lastOp'.h = h
             /\ lastOp'.err = {}
             /\ md'[h].st = "Attached"
       /\ md[h].st # "None" =>
             /\ md'[h].unit = md[h].unit
             /\ md'[h].name = md[h].name
             /\ md'[h].path = md[h].path

\* C15: an Md exists only as the result of a successful attach call (a create
\* that fails at the channel open, the metadata read or the attach call
\* returns no handle, and no detach is ever issued for it); the handle's unit
\* is the one the kernel left in the record, its name "md" and the unit, its
\* path "/dev/" and the name, and the three never change.
C15_HandleFromAttach == []C15_HandleState /\ [][C15_HandleStep]_vars

\* A create that asked for an auto-assigned unit has returned a handle.
C15_Witness ==
    /\ lastOp.op = "create"
    /\ CreatedByAttach
    /\ "MD_AUTOUNIT" \in lastOp.ioctls[1].rec.md_options

\* ------------------------------------------------- C16 the size conversion

\* The constructors that take a size.
SizedCtors == {"malloc", "null", "swap"}

\* m is the value of the unsigned s read as a signed value of the same width:
\* s itself below the sign bit, s less two to the width from the sign bit on.
Reinterprets(s, m) ==
    /\ m = (IF s < Pow2(OffBits - 1) THEN s ELSE s - Pow2(OffBits))
    /\ -Pow2(OffBits - 1) <= m /\ m < Pow2(OffBits - 1)
    /\ (m - s) % Pow2(OffBits) = 0

\* C16: the media size that malloc(size), null(size) and swap(size) put in
\* the record, and that create then passes to the driver when size() was not
\* called, is the two's-complement reading of size: size below the sign bit,
\* size less two to the width (a negative value) from the sign bit on; no
\* size is refused or clamped.
C16_SizeReinterpreted ==
    /\ \A b \in builder :
          (hist.ctor \in SizedCtors /\ hist.size = {}) =>
             \E s \in hist.arg : Reinterprets(s, b.mdio.md_mediasize)
    /\ (lastOp.op = "create" /\ lastOp.hist.ctor \in SizedCtors
          /\ lastOp.hist.size = {}) =>
             \A i \in DOMAIN lastOp.ioctls : \E s \in lastOp.hist.arg :
                Reinterprets(s, lastOp.ioctls[i].rec.md_mediasize)
    /\ (builder = {} /\ NoHandle /\ ~panicking) =>
          \A s \in SizeArgs :
             ENABLED Malloc(s) /\ ENABLED Null(s) /\ ENABLED Swap(s)

\* A constructor was given a size with the sign bit set and create has passed
\* the record, with a negative media size, to the driver.
C16_Witness ==
    /\ lastOp.op = "create"
    /\ lastOp.hist.ctor \in SizedCtors
    /\ lastOp.hist.size = {}
    /\ \E s \in lastOp.hist.arg : s >= Pow2(OffBits - 1)
    /\ Len(lastOp.ioctls) = 1
    /\ lastOp.ioctls[1].rec.md_mediasize < 0

====
